---- MODULE Spec2Model ----
(***************************************************************************)
(* A model of the rootwater toolbox: the daily root-water-uptake estimator *)
(* (rootwater.py: fRWU and its wrapper dfRWUc) and the sap-flow functions  *)
(* (sapflow.py), and the Van Genuchten conversions of the documentation's  *)
(* example (vG_conv.py).                                                   *)
(*                                                                         *)
(* Numbers.  Time is counted in ticks of 15 minutes from 00:00 of the      *)
(* first calendar day of the input.  Soil moisture is counted in units of  *)
(* 0.01 vol.%.  A float cell is a tuple: <<>> is not-a-number and          *)
(* <<n, d>> (d > 0) is the number n/d.  The smoothed moisture difference   *)
(* is kept multiplied by KernelSum.                                        *)
(***************************************************************************)
EXTENDS Integers, Sequences, FiniteSets, TLC

VARIABLES
    entry,      \* which function of the toolbox the caller invoked
    par,        \* the caller's keyword arguments
    table,      \* the caller's data: index (timestamps), labels, data (columns)
    pc,         \* position of the running call
    col,        \* dfRWUc: position of the column being evaluated
    l,          \* fRWU: the location handed to the ephemeris
    ts,         \* fRWU: the series of one sensor (values, aligned with table.index)
    dif_ts,     \* fRWU: smoothed difference of ts
    RWU,        \* fRWU: the data frame of daily results, one row per day
    dayi,       \* fRWU: position in ddx of the next day of the loop
    out,        \* the value returned to the caller (dfRWUc: the three
                \* result tables [dummx, dummy, dummc])
    exc,        \* the exception that ended the call, "" when none
    Sap,        \* sap_calc: the table of sap flow, one row per row of SV
    rowi,       \* sap_calc: position in SV.index of the next row of the loop
    arg         \* vG_conv: the caller's object handed in as first argument
                \* (par.x holds the values it had when the call was made)

vars ==
    <<entry, pc, exc, col, dayi, rowi, par, table, l, ts, dif_ts, RWU, out, Sap, arg>>

----------------------------------------------------------------------------
(* Time base and float cells *)

TicksPerHour == 60 \div 15
TicksPerDay == 24 * TicksPerHour
Hr(h) == h * TicksPerHour
HalfHr == TicksPerHour \div 2

NaN == <<>>
IsNaN(x) == x = <<>>

Abs(n) == IF n < 0 THEN -n ELSE n
Min(a, b) == IF a < b THEN a ELSE b
Max(a, b) == IF a < b THEN b ELSE a

RECURSIVE Gcd(_, _)
Gcd(a, b) == IF b = 0 THEN a ELSE Gcd(b, a % b)

\* the number n/d as a cell, in lowest terms, d > 0
Rat(n, d) ==
    LET g == Gcd(Abs(n), Abs(d))
        s == IF d < 0 THEN -1 ELSE 1
    IN  <<(s * n) \div g, (s * d) \div g>>

Num(n) == <<n, 1>>

RLt(x, y) == x[1] * y[2] < y[1] * x[2]
\* sums over the least common denominator
Over(x, y, g) == (x[2] \div g) * y[2]
RAddOver(x, y, g) == Rat(x[1] * (y[2] \div g) + y[1] * (x[2] \div g), Over(x, y, g))
RSubOver(x, y, g) == Rat(x[1] * (y[2] \div g) - y[1] * (x[2] \div g), Over(x, y, g))
RAdd(x, y) == RAddOver(x, y, Gcd(x[2], y[2]))
RSub(x, y) == RSubOver(x, y, Gcd(x[2], y[2]))
RMul(x, y) == Rat(x[1] * y[1], x[2] * y[2])

RECURSIVE SumSeq(_)
SumSeq(s) == IF s = <<>> THEN 0 ELSE Head(s) + SumSeq(Tail(s))

SetMin(S) == CHOOSE x \in S : \A y \in S : x <= y

----------------------------------------------------------------------------
(* pandas index operations on a sorted index of timestamps *)

\* number of labels before t, and up to t
CountLt(index, t) == Cardinality({p \in DOMAIN index : index[p] < t})
CountLe(index, t) == Cardinality({p \in DOMAIN index : index[p] <= t})

\* index.get_loc(t, method='nearest'): ties go to the larger label
get_loc_nearest(index, t) ==
    LET pad == CountLe(index, t)
        bf  == CountLt(index, t) + 1
    IN  IF pad = 0 THEN bf
        ELSE IF bf > Len(index) THEN pad
        ELSE IF t - index[pad] < index[bf] - t THEN pad ELSE bf

\* positions of series.loc[a:b] (both ends included)
LocLo(index, a) == CountLt(index, a) + 1
LocHi(index, b) == CountLe(index, b)
LocLen(index, a, b) ==
    IF LocHi(index, b) < LocLo(index, a) THEN 0
    ELSE LocHi(index, b) - LocLo(index, a) + 1

\* position of label t, 0 when t is no label of the index
PosOf(index, t) ==
    IF \E p \in DOMAIN index : index[p] = t
    THEN CHOOSE p \in DOMAIN index : index[p] = t
    ELSE 0

----------------------------------------------------------------------------
(* The collaborators of fRWU *)

\* astral's sun(l, date): sunrise and sunset of calendar day dd at a location,
\* as ticks.  The ephemeris is tabulated for the locations the model uses:
\* "default" is fRWU's default lat/lon/elev, "other" any other place.
SunTable(loc) ==
    IF loc = "default" THEN [sunrise |-> 19, sunset |-> 83]
    ELSE [sunrise |-> 26, sunset |-> 70]

sunr(dd) == dd * TicksPerDay + SunTable(l).sunrise
suns(dd) == dd * TicksPerDay + SunTable(l).sunset

\* series.diff(periods): a cell <<v>>, or NaN for the first `periods` rows
Diff(series, periods) ==
    [p \in DOMAIN series |->
        IF p <= periods THEN NaN ELSE <<series[p] - series[p - periods]>>]

\* scipy's gaussian_filter1d(x, 1): the normalised Gaussian weights of radius
\* int(4.0 * 1 + 0.5) = 4, rounded to 1/10000 (they sum to KernelSum)
Kernel == <<1, 44, 540, 2420, 3990, 2420, 540, 44, 1>>
KernelRadius == (Len(Kernel) - 1) \div 2
KernelSum == SumSeq(Kernel)

\* mode='reflect': d c b a | a b c d | d c b a
Reflect(i, n) == IF i < 1 THEN 1 - i ELSE IF i > n THEN 2 * n + 1 - i ELSE i

gaussian_filter1d(x) ==
    LET n == Len(x)
        W(p) == {Reflect(p + j, n) : j \in -KernelRadius..KernelRadius}
    IN  [p \in DOMAIN x |->
            IF \E q \in W(p) : IsNaN(x[q]) THEN NaN
            ELSE <<SumSeq([j \in 1..Len(Kernel) |->
                       Kernel[j] * x[Reflect(p + j - 1 - KernelRadius, n)][1]])>>]

\* a moisture difference of c units of 0.01 vol.%, on dif_ts' scale
Scaled(c) == c * KernelSum

\* the calendar day of a timestamp
DateOf(t) == t \div TicksPerDay

\* ddxOf without the last day
AllButLast(index) ==
    [i \in 1..(DateOf(index[Len(index)]) - DateOf(index[1])) |->
        DateOf(index[1]) + i - 1]

\* ts.resample('1d').mean().index.date: every day from the first to the last
ddxOf(index) ==
    [i \in 1..(DateOf(index[Len(index)]) - DateOf(index[1]) + 1) |->
        DateOf(index[1]) + i - 1]

ddx == ddxOf(table.index)

\* value_counts() of the time steps, most frequent first: its index[0]
freqxOf(index) ==
    LET steps == [p \in 1..(Len(index) - 1) |-> index[p + 1] - index[p]]
        count(f) == Cardinality({p \in DOMAIN steps : steps[p] = f})
        first(f) == SetMin({p \in DOMAIN steps : steps[p] = f})
        S == {steps[p] : p \in DOMAIN steps}
    IN  CHOOSE f \in S : \A g \in S :
            count(f) > count(g) \/ (count(f) = count(g) /\ first(f) <= first(g))

freqx == freqxOf(table.index)

----------------------------------------------------------------------------
(* fRWU: the reference times of a day *)

index == table.index

\* the tests of startstopRWU on the smoothed difference at position p; a
\* comparison with NaN is false
NotDeclining(p) == ~IsNaN(dif_ts[p]) /\ dif_ts[p][1] >= 0
Falling(p) == ~IsNaN(dif_ts[p]) /\ dif_ts[p][1] <= Scaled(-2)
Rising(p) == ~IsNaN(dif_ts[p]) /\ dif_ts[p][1] > 0

\* np.where(...)[0][0] over the window w, for the positions after `after`;
\* 0 stands for the IndexError of an empty selection
FirstNotDeclining(w) ==
    IF \E p \in w.lo..w.hi : NotDeclining(p)
    THEN SetMin({p \in w.lo..w.hi : NotDeclining(p)}) ELSE 0

\* FirstFalling without the restriction to the positions after `after`
FirstFallingAnywhere(w, after) ==
    IF \E p \in w.lo..w.hi : Falling(p)
    THEN SetMin({p \in w.lo..w.hi : Falling(p)}) ELSE 0

FirstFalling(w, after) ==
    IF \E p \in w.lo..w.hi : Falling(p) /\ p > after
    THEN SetMin({p \in w.lo..w.hi : Falling(p) /\ p > after}) ELSE 0

FirstRising(w, after) ==
    IF \E p \in w.lo..w.hi : Rising(p) /\ p > after
    THEN SetMin({p \in w.lo..w.hi : Rising(p) /\ p > after}) ELSE 0

\* tsx = dif_ts.loc[sunset of the day before - 5 h : sunset + 2 h]
SearchWindow(dd) ==
    [lo |-> LocLo(index, suns(dd - 1) - Hr(5)),
     hi |-> LocHi(index, suns(dd) + Hr(2))]

Crossings(i0, k, j) ==
    IF i0 = 0 \/ k = 0 \/ j = 0 THEN [found |-> FALSE]
    ELSE [found |-> TRUE, stopRWU |-> index[i0], startRWU |-> index[k - 1],
          stop2RWU |-> index[j]]

SearchDayEnd(w, i0, k) == Crossings(i0, k, IF k = 0 THEN 0 ELSE FirstRising(w, k))
SearchDayStart(w, i0) == SearchDayEnd(w, i0, IF i0 = 0 THEN 0 ELSE FirstFalling(w, i0))
SearchIn(w) == SearchDayStart(w, FirstNotDeclining(w))

\* the try block of startstopRWU: the three crossings of the smoothed
\* difference inside the search window, found = FALSE when a lookup raises
CrossingSearch(dd) == SearchIn(SearchWindow(dd))

\* FixedOffsets without the hour after sunset and sunrise
SunTimes(dd) ==
    [tin  |-> index[get_loc_nearest(index, suns(dd - 1))],
     tout |-> index[get_loc_nearest(index, sunr(dd))],
     tix  |-> index[get_loc_nearest(index, suns(dd))],
     evalx |-> 0]

\* the except block of startstopRWU: one hour after sunset and sunrise
FixedOffsets(dd) ==
    [tin  |-> index[get_loc_nearest(index, suns(dd - 1) + Hr(1))],
     tout |-> index[get_loc_nearest(index, sunr(dd) + Hr(1))],
     tix  |-> index[get_loc_nearest(index, suns(dd) + Hr(1))],
     evalx |-> 0]

Found(c) == [tin |-> c.stopRWU, tout |-> c.startRWU, tix |-> c.stop2RWU, evalx |-> 1]

TryExcept(c, dd) == IF c.found THEN Found(c) ELSE FixedOffsets(dd)

startstopRWU(dd) == TryExcept(CrossingSearch(dd), dd)

idstep_startstop(dd) ==
    [tin  |-> index[get_loc_nearest(index, suns(dd - 1) - (Hr(1) + HalfHr))],
     tout |-> index[get_loc_nearest(index, sunr(dd) + Hr(2))],
     tix  |-> index[get_loc_nearest(index, suns(dd) - HalfHr)]]

----------------------------------------------------------------------------
(* The regression and goodness-of-fit collaborators *)

RECURSIVE SumTo(_, _)
SumTo(f, n) == IF n = 0 THEN 0 ELSE f[n] + SumTo(f, n - 1)

\* sums about the mean of x = 0 .. n-1 (doubled, to stay whole) and the first y
CrossSum(y) ==
    SumTo([i \in 1..Len(y) |-> (2 * (i - 1) - (Len(y) - 1)) * (y[i] - y[1])], Len(y))
SquareSum(n) ==
    SumTo([i \in 1..n |-> (2 * (i - 1) - (n - 1)) * (2 * (i - 1) - (n - 1))], n)
DevSum(y) == SumTo([i \in 1..Len(y) |-> y[i] - y[1]], Len(y))

FitLine(y1, n, slope, Sz) ==
    [ok |-> TRUE,
     Intercept |-> RAdd(Num(y1), RSub(Rat(Sz, n), RMul(slope, Rat(n - 1, 2)))),
     x |-> slope]

\* smf.ols('y ~ x').fit() for x = 0, 1, ..., Len(y) - 1: the least-squares
\* line.  No rows: the fit raises.  One row: the minimum-norm solution.
ols(y) ==
    IF Len(y) = 0 THEN [ok |-> FALSE]
    ELSE IF Len(y) = 1 THEN [ok |-> TRUE, Intercept |-> Num(y[1]), x |-> Num(0)]
    ELSE FitLine(y[1], Len(y), Rat(2 * CrossSum(y), SquareSum(Len(y))), DevSum(y))

SqErr(sim, eval) ==
    SumTo([i \in 1..Len(eval) |-> (eval[i] - sim[i]) * (eval[i] - sim[i])], Len(eval))
SqDev(eval, mean) ==
    SumTo([i \in 1..Len(eval) |-> (eval[i] - mean) * (eval[i] - mean)], Len(eval))
Bounded(F, D) == IF D = 0 THEN NaN ELSE Rat(D - F, D + F)

\* hydroeval's nse_c2m(simulations, evaluation) = nse / (2 - nse) with
\* nse = 1 - F / D, F = sum (eval - sim)^2, D = sum (eval - mean(eval))^2,
\* the mean rounded down to the moisture unit: (D - F) / (D + F), NaN for D = 0
nse_c2m(sim, eval) ==
    IF Len(eval) = 0 THEN NaN
    ELSE Bounded(SqErr(sim, eval),
                 SqDev(eval, SumTo(eval, Len(eval)) \div Len(eval)))

----------------------------------------------------------------------------
(* fRWU: the estimate of one day *)

At(t) == ts[PosOf(index, t)]                 \* ts.loc[t] for a label t

\* ts.loc[a:b].values
Values(a, b) ==
    [i \in 1..LocLen(index, a, b) |-> ts[LocLo(index, a) + i - 1]]

NanRow(code, r) ==
    [rwu |-> NaN, rwu_nonight |-> NaN, lm_night |-> NaN, lm_day |-> NaN,
     step_control |-> Num(code), evalx |-> Num(r.evalx),
     tin |-> Num(r.tin), tout |-> Num(r.tout), tix |-> Num(r.tix)]

\* (tout - tin).seconds < mintime * 3600 | (tix - tout).seconds < mintime * 3600:
\* .seconds is the time of day of a timedelta, its days are left out
TooShort(r) ==
    \/ (r.tout - r.tin) % TicksPerDay < par.mintime
    \/ (r.tix - r.tout) % TicksPerDay < par.mintime

\* any(dif_ts.loc[tin:tix] > maxdiffs)
Drift(r) ==
    \E p \in LocLo(index, r.tin)..LocHi(index, r.tix) :
        ~IsNaN(dif_ts[p]) /\ dif_ts[p][1] > Scaled(par.maxdiffs)

\* the rows of the night data frame that hold both x and y: x counts the
\* samples of tin .. tout - 1 h, y holds those of tin .. tout + 1 h
NightData(r) ==
    [i \in 1..Min(LocLen(index, r.tin, r.tout - Hr(1)),
                  LocLen(index, r.tin, r.tout + Hr(1))) |->
        ts[LocLo(index, r.tin) + i - 1]]

\* the four tests of the step shape; res and res2 are the slopes, and the
\* night slope is divided by the number of samples in six hours
NightAboveLower(res) == res[1] * freqx * 12 > -(100 * Hr(6)) * res[2]
NightBelowUpper(res) == res[1] * freqx * 6 < (100 * Hr(6)) * res[2]
DayNegative(res2) == res2[1] < 0
DaySteeper(res, res2) == RLt(res2, RMul(Num(par.slope_diff), res))

\* StepControl with the weights of the two night tests exchanged
StepControlSwapped(res, res2) ==
      (IF NightAboveLower(res) THEN 100 ELSE 0)
    + (IF NightBelowUpper(res) THEN 10 ELSE 0)
    + (IF DayNegative(res2) THEN 1000 ELSE 0)
    + (IF DaySteeper(res, res2) THEN 1 ELSE 0)

StepControl(res, res2) ==
      (IF NightAboveLower(res) THEN 10 ELSE 0)
    + (IF NightBelowUpper(res) THEN 100 ELSE 0)
    + (IF DayNegative(res2) THEN 1000 ELSE 0)
    + (IF DaySteeper(res, res2) THEN 1 ELSE 0)

\* fuse.loc[tix] raises KeyError unless tix is a label of
\* pd.date_range(tin, tix, freq=freqx.index[0])
OnGrid(r) == r.tix >= r.tin /\ (r.tix - r.tin) % freqx = 0

\* Fuse with the night line extrapolated to tout only
FuseToTout(r, res) ==
    RAdd(res.Intercept, RMul(res.x, Num((r.tout - r.tin) \div freqx)))

\* fuse.loc[tix]: the night line, extrapolated to tix
Fuse(r, res) ==
    RAdd(res.Intercept, RMul(res.x, Num((r.tix - r.tin) \div freqx)))

\* StepRow with the sign of rwu turned round
StepRowSigned(r, res, res2) ==
    [rwu |-> RSub(Num(At(r.tix)), Fuse(r, res)),
     rwu_nonight |-> Num(At(r.tout) - At(r.tix)),
     lm_night |-> res.x, lm_day |-> res2.x,
     step_control |-> Num(StepControl(res.x, res2.x)),
     evalx |-> Num(r.evalx),
     tin |-> Num(r.tin), tout |-> Num(r.tout), tix |-> Num(r.tix)]

StepRow(r, res, res2) ==
    [rwu |-> RSub(Fuse(r, res), Num(At(r.tix))),
     rwu_nonight |-> Num(At(r.tout) - At(r.tix)),
     lm_night |-> res.x, lm_day |-> res2.x,
     step_control |-> Num(StepControl(res.x, res2.x)),
     evalx |-> Num(r.evalx),
     tin |-> Num(r.tin), tout |-> Num(r.tout), tix |-> Num(r.tix)]

DayFit(r, res, res2) ==
    IF ~res2.ok
    THEN [raised |-> FALSE, row |-> [NanRow(0, r) EXCEPT !.lm_night = res.x]]
    ELSE IF ~OnGrid(r) THEN [raised |-> TRUE]
    ELSE [raised |-> FALSE, row |-> StepRow(r, res, res2)]

NightFit(r, res) ==
    IF ~res.ok THEN [raised |-> FALSE, row |-> NanRow(0, r)]
    ELSE DayFit(r, res, ols(Values(r.tout, r.tix)))

\* Checks with the drift tested before the spans
ChecksDriftFirst(r) ==
    IF Drift(r) THEN [raised |-> FALSE, row |-> NanRow(3, r)]
    ELSE IF TooShort(r) THEN [raised |-> FALSE, row |-> NanRow(2, r)]
    ELSE NightFit(r, ols(NightData(r)))

Checks(r) ==
    IF TooShort(r) THEN [raised |-> FALSE, row |-> NanRow(2, r)]
    ELSE IF Drift(r) THEN [raised |-> FALSE, row |-> NanRow(3, r)]
    ELSE NightFit(r, ols(NightData(r)))

dayRWU(dd) == Checks(startstopRWU(dd))

\* an all-NaN series over the labels pd.date_range(a, b, freq='30min')
DateRange(a, b) ==
    [i \in 1..(IF b < a THEN 0 ELSE (b - a) \div HalfHr + 1) |->
        [t |-> a + (i - 1) * HalfHr, v |-> NaN]]

\* dummy[t] = v on a series of [t, v] records: replaces the value at label
\* t, or appends a new row when t is no label yet
SetItem(series, t, v) ==
    IF \E p \in DOMAIN series : series[p].t = t
    THEN [p \in DOMAIN series |->
             IF series[p].t = t THEN [t |-> t, v |-> <<v>>] ELSE series[p]]
    ELSE Append(series, [t |-> t, v |-> <<v>>])

Valid(series) == {p \in DOMAIN series : ~IsNaN(series[p].v)}
SetMax(S) == CHOOSE x \in S : \A y \in S : y <= x

Between(series, p, a, b) ==
    <<series[a].v[1] + ((series[b].v[1] - series[a].v[1]) * (p - a)) \div (b - a)>>

Fill(series, p, before, after) ==
    IF before = {} THEN NaN
    ELSE IF after = {} THEN series[SetMax(before)].v
    ELSE Between(series, p, SetMax(before), SetMin(after))

\* series.interpolate(): linear by position between valid values (rounded
\* down to the moisture unit); rows after the last valid value repeat it,
\* rows before the first stay NaN
Interpolate(series) ==
    [p \in DOMAIN series |->
        IF ~IsNaN(series[p].v) THEN series[p]
        ELSE [t |-> series[p].t,
              v |-> Fill(series, p, {q \in Valid(series) : q < p},
                         {q \in Valid(series) : q > p})]]

\* the idealised step of dayRWU2: flat from dtin to one hour after dtout,
\* then falling to the moisture of dtix, reached 2.5 h before dtix
Ideal(d) ==
    Interpolate(
        SetItem(SetItem(SetItem(DateRange(d.tin, d.tix), d.tin, At(d.tin)),
                        d.tout + Hr(1), At(d.tin) + 1),
                d.tix - (Hr(2) + HalfHr), At(d.tix)))

IdealStep(dd) == Ideal(idstep_startstop(dd))

Compare(rows) ==
    nse_c2m([i \in 1..Len(rows) |-> At(rows[i].t)],
            [i \in 1..Len(rows) |-> rows[i].v[1]])

\* nse_c2m over the rows of pd.concat([dummy, ts.loc[tin-0.5h:tix+0.5h]],
\* axis=1).dropna()
StepNSE(dd, r) ==
    LET Both(e) == /\ ~IsNaN(e.v)
                   /\ PosOf(index, e.t) # 0
                   /\ e.t >= r.tin - HalfHr
                   /\ e.t <= r.tix + HalfHr
    IN  Compare(SelectSeq(IdealStep(dd), Both))

Scored(dd, r, d) ==
    IF d.raised THEN [raised |-> TRUE]
    ELSE [raised |-> FALSE,
          row |-> [rwu |-> d.row.rwu, rwu_nonight |-> d.row.rwu_nonight,
                   lm_night |-> d.row.lm_night, lm_day |-> d.row.lm_day,
                   step_control |-> d.row.step_control, evalx |-> d.row.evalx,
                   eval_nse |-> StepNSE(dd, r),
                   tin |-> Num(r.tin), tout |-> Num(r.tout), tix |-> Num(r.tix)]]

dayRWU2(dd) == Scored(dd, startstopRWU(dd), dayRWU(dd))

\* a row of np.zeros((len(ddx), 10)) * np.nan
EmptyRow ==
    [rwu |-> NaN, rwu_nonight |-> NaN, lm_night |-> NaN, lm_day |-> NaN,
     step_control |-> NaN, evalx |-> NaN, eval_nse |-> NaN,
     tin |-> NaN, tout |-> NaN, tix |-> NaN]

----------------------------------------------------------------------------
(* sapflow.py.  Radii are whole centimetres; lengths are counted in units  *)
(* of 0.01 cm, areas in 0.01 cm2, velocities in 0.01 cm/h, the relative    *)
(* flux density in hundredths.  A call returns Return(v) or Raise(e).      *)

Raise(e) == [raised |-> TRUE, exc |-> e]
Return(v) == [raised |-> FALSE, v |-> v]

\* the keys of gp
GP == {"beech", "hornbeam", "limeA", "limeB", "sycamoremaple", "maple", "ash"}

\* the radii at which the power law of gebauer and the Weibull function are
\* tabulated
Radii == {5, 32}

\* bark thickness: db / 10 with db = 2.61029 + 0.28522 * 2 * r (beech),
\* 9.88855 + 0.56734 * 2 * r (oak)
roessler(r, tree) ==
    IF tree = "beech" THEN Return((261029 + 28522 * 2 * r) \div 10000)
    ELSE IF tree = "oak" THEN Return((988855 + 56734 * 2 * r) \div 10000)
    ELSE Raise("NotImplementedError")

\* -(sqrt((pi * r**2 - As) / pi) - r) for r less half the bark, with
\* As = 0.778 * (2 * r)**1.917 (beech), 0.065 * (2 * r)**2.264 (oak)
Sapwood(r, tree) ==
    CASE tree = "beech" /\ r = 5 -> 273
      [] tree = "beech" /\ r = 32 -> 1410
      [] tree = "oak" /\ r = 5 -> 32
      [] tree = "oak" /\ r = 32 -> 386

Debarked(db, r, tree) ==
    IF db.raised THEN db
    ELSE IF tree \in {"beech", "oak"} THEN Return(Sapwood(r, tree))
    ELSE Raise("NotImplementedError")

gebauer(r, tree) == Debarked(roessler(r, tree), r, tree)

NPoints == 50

\* gebauer_weibull(x, a, b, c, d) with the parameters gp[tree], at
\* x = np.arange(50) / 50 * gebauer(r)
gebauer_weibull(tree, r) ==
    CASE tree = "beech" /\ r = 5 ->
            <<549, 540, 532, 523, 515, 507, 499, 491, 483, 475, 468, 461,
              453, 446, 439, 432, 425, 418, 412, 405, 399, 392, 386, 380,
              374, 368, 362, 357, 351, 345, 340, 335, 329, 324, 319, 314,
              309, 304, 299, 294, 290, 285, 281, 276, 272, 267, 263, 259,
              255, 251>>
      [] tree = "beech" /\ r = 32 ->
            <<549, 506, 466, 429, 395, 364, 335, 308, 284, 261, 241, 222,
              204, 188, 173, 159, 147, 135, 125, 115, 106, 97, 90, 82, 76,
              70, 64, 59, 55, 50, 46, 43, 39, 36, 33, 31, 28, 26, 24, 22,
              20, 19, 17, 16, 15, 13, 12, 11, 11, 10>>
      [] tree = "hornbeam" /\ r = 5 ->
            <<99, 99, 99, 99, 99, 98, 98, 98, 98, 98, 97, 97, 97, 96, 96,
              96, 95, 95, 95, 94, 94, 93, 93, 93, 92, 92, 91, 91, 90, 90,
              89, 89, 88, 88, 88, 87, 87, 86, 86, 85, 85, 84, 83, 83, 82,
              82, 81, 81, 80, 80>>
      [] tree = "hornbeam" /\ r = 32 ->
            <<99, 98, 97, 96, 94, 91, 89, 86, 84, 81, 79, 76, 74, 72, 70,
              68, 67, 65, 64, 63, 62, 61, 61, 60, 60, 60, 59, 59, 59, 59,
              59, 59, 59, 59, 59, 59, 59, 59, 59, 59, 59, 59, 59, 59, 59,
              59, 59, 59, 59, 59>>
      [] tree = "limeA" /\ r = 5 ->
            <<111, 111, 111, 111, 111, 111, 111, 111, 110, 110, 110, 110,
              109, 109, 109, 108, 108, 108, 107, 107, 107, 106, 106, 105,
              105, 104, 104, 103, 103, 102, 101, 101, 100, 100, 99, 99,
              98, 97, 97, 96, 95, 95, 94, 94, 93, 92, 92, 91, 90, 90>>
      [] tree = "limeA" /\ r = 32 ->
            <<111, 111, 110, 108, 106, 104, 101, 98, 95, 91, 88, 85, 82,
              79, 77, 74, 72, 70, 69, 68, 67, 66, 65, 65, 64, 64, 64, 63,
              63, 63, 63, 63, 63, 63, 63, 63, 63, 63, 63, 63, 63, 63, 63,
              63, 63, 63, 63, 63, 63, 63>>
      [] tree = "limeB" /\ r = 5 ->
            <<76, 76, 76, 75, 75, 75, 75, 75, 75, 75, 74, 74, 74, 74, 73,
              73, 73, 73, 72, 72, 72, 72, 71, 71, 71, 70, 70, 70, 69, 69,
              69, 68, 68, 68, 67, 67, 67, 66, 66, 66, 65, 65, 64, 64, 64,
              63, 63, 63, 62, 62>>
      [] tree = "limeB" /\ r = 32 ->
            <<76, 75, 74, 73, 72, 70, 68, 67, 65, 63, 61, 59, 57, 56, 54,
              53, 51, 50, 49, 48, 47, 46, 45, 45, 44, 43, 43, 42, 42, 42,
              42, 41, 41, 41, 41, 41, 41, 40, 40, 40, 40, 40, 40, 40, 40,
              40, 40, 40, 40, 40>>
      [] tree = "sycamoremaple" /\ r = 5 ->
            <<112, 112, 111, 111, 111, 110, 110, 110, 109, 109, 108, 108,
              108, 107, 107, 106, 106, 105, 105, 104, 104, 103, 103, 102,
              102, 101, 101, 100, 99, 99, 98, 98, 97, 97, 96, 96, 95, 94,
              94, 93, 93, 92, 92, 91, 91, 90, 90, 89, 89, 88>>
      [] tree = "sycamoremaple" /\ r = 32 ->
            <<112, 110, 108, 106, 103, 101, 98, 95, 92, 89, 87, 84, 82,
              80, 78, 77, 76, 75, 74, 73, 73, 72, 72, 72, 72, 71, 71, 71,
              71, 71, 71, 71, 71, 71, 71, 71, 71, 71, 71, 71, 71, 71, 71,
              71, 71, 71, 71, 71, 71, 71>>
      [] tree = "maple" /\ r = 5 ->
            <<102, 102, 102, 101, 101, 101, 101, 101, 101, 101, 100, 100,
              100, 100, 99, 99, 99, 98, 98, 98, 97, 97, 96, 96, 95, 95,
              94, 94, 93, 93, 92, 92, 91, 91, 90, 90, 89, 89, 88, 87, 87,
              86, 86, 85, 84, 84, 83, 83, 82, 81>>
      [] tree = "maple" /\ r = 32 ->
            <<102, 101, 100, 99, 97, 95, 92, 89, 86, 83, 80, 77, 74, 71,
              69, 66, 64, 62, 60, 58, 57, 55, 54, 53, 52, 52, 51, 51, 50,
              50, 50, 49, 49, 49, 49, 49, 49, 49, 49, 49, 49, 49, 48, 48,
              48, 48, 48, 48, 48, 48>>
      [] tree = "ash" /\ r = 5 ->
            <<68, 68, 67, 66, 66, 65, 64, 63, 62, 61, 60, 59, 58, 57, 56,
              55, 54, 53, 52, 52, 51, 50, 49, 48, 47, 47, 46, 45, 45, 44,
              43, 43, 42, 42, 41, 41, 41, 40, 40, 39, 39, 39, 38, 38, 38,
              38, 38, 37, 37, 37>>
      [] tree = "ash" /\ r = 32 ->
            <<68, 65, 60, 55, 50, 46, 43, 40, 39, 37, 37, 36, 36, 35, 35,
              35, 35, 35, 35, 35, 35, 35, 35, 35, 35, 35, 35, 35, 35, 35,
              35, 35, 35, 35, 35, 35, 35, 35, 35, 35, 35, 35, 35, 35, 35,
              35, 35, 35, 35, 35>>

\* gebauer_rel: the depths are those of a beech whatever the tree; the
\* parameters are looked up afterwards
Looked(th, r, tree) ==
    IF th.raised THEN th
    ELSE IF tree \notin GP THEN Raise("ValueError")
    ELSE Return(gebauer_weibull(tree, r))

gebauer_rel(r, tree) == Looked(gebauer(r, "beech"), r, tree)

\* np.where(np.cumsum(rel) / sum(rel) > perc)[0][0], -1 for the IndexError
Percentile(rel, perc, total) ==
    IF \E i \in DOMAIN rel : SumTo(rel, i) * 100 > perc * total
    THEN SetMin({i \in DOMAIN rel : SumTo(rel, i) * 100 > perc * total}) - 1
    ELSE -1

Limit(idx, th) ==
    IF idx < 0 THEN Raise("IndexError")
    ELSE IF th.raised THEN th
    ELSE Return(Rat(idx * th.v, NPoints))

ActOf(rel, perc, r, tree) ==
    IF rel.raised THEN rel
    ELSE Limit(Percentile(rel.v, perc, SumTo(rel.v, Len(rel.v))), gebauer(r, tree))

\* gebauer_act for a float r
ActFloat(r, perc, tree) == ActOf(gebauer_rel(r, tree), perc, r, tree)

FirstRaised(elems) ==
    elems[SetMin({i \in DOMAIN elems : elems[i].raised})]

Gathered(elems) ==
    IF \E i \in DOMAIN elems : elems[i].raised THEN FirstRaised(elems)
    ELSE Return([i \in DOMAIN elems |-> elems[i].v])

\* gebauer_act for an array r: act_sap = r * nan, then
\* `for i in np.arange(len(r))[1:]`
ActArray(rs, perc, tree) ==
    Gathered([i \in DOMAIN rs |->
                 IF i = 1 THEN Return(NaN) ELSE ActFloat(rs[i], perc, tree)])

gebauer_act(r, perc, tree) ==
    IF r.kind = "float" THEN ActFloat(r.v, perc, tree)
    ELSE ActArray(r.v, perc, tree)

PiNum == 355
PiDen == 113

\* pi * ((r - sens[0])**2) - pi * ((r - sens[1])**2), as pi times the
\* difference of the squares, rounded down to 0.01 cm2
Ring(r, lo, hi) ==
    RMul(RSub(hi, lo), RSub(RSub(RMul(Num(2), r), lo), hi))

Area(D) == (D[1] * PiNum) \div (D[2] * PiDen * 100)

Barked(db, r, lo, hi) ==
    IF db.raised THEN db
    ELSE Return(Area(Ring(Rat(200 * r - db.v, 2), lo, hi)))

A_circ(r, lo, hi, tree) == Barked(roessler(r, tree), r, lo, hi)

\* (np.arange(50) / 50. * gebauer(r, tree))[i], i counted from 0
Xi(i, th) == Rat(i * th, NPoints)

\* position (from 0) of the first depth that is at least `depth`, -1 for
\* the IndexError of dummy[... >= depth][0]
FirstAtLeast(th, depth) ==
    IF \E i \in 0..(NPoints - 1) : i * th >= depth * NPoints
    THEN SetMin({i \in 0..(NPoints - 1) : i * th >= depth * NPoints})
    ELSE -1

\* LeastSquares with a scaling factor that ignores the measurements
UnitScale(g1, g2, s1, s2) == Return(Num(1))

\* minimize_scalar(aply_geb).x: the s1x that makes
\* sqrt(0.2 * (s1x * g1 - s1)**2 + (s1x * g2 - s2)**2) least
LeastSquares(g1, g2, s1, s2) ==
    Return(Rat(100 * (g1 * s1 + 5 * g2 * s2), g1 * g1 + 5 * g2 * g2))

FitAt(rel, i1, i2, s1, s2) ==
    IF i1 < 0 \/ i2 < 0 THEN Raise("IndexError")
    ELSE LeastSquares(rel[i1 + 1], rel[i2 + 1], s1, s2)

Fit(rel, th, s1, s2) ==
    IF rel.raised THEN rel
    ELSE FitAt(rel.v, FirstAtLeast(th, 180), FirstAtLeast(th, 300), s1, s2)

\* dummy = res.x * gebauer_rel(r, tree)
Distribution(x, rel) == [i \in DOMAIN rel |-> (x[1] * rel[i]) \div x[2]]

\* the positions (from 0) deeper than 2.4 cm and not deeper than the limit
\* of the active sapwood
Active(th, act) ==
    {i \in 0..(NPoints - 1) : RLt(Num(240), Xi(i, th)) /\ ~RLt(act, Xi(i, th))}

\* Ax after `for i in np.arange(len(Ax)): Ax = A_circ(r, [rx[i] - 0.01 *
\* gebauer(r, tree), rx[i] + 0.01 * gebauer(r, tree)])`: the ring of the
\* last position
LastRing(r, th, P) ==
    A_circ(r, RSub(Xi(SetMax(P), th), Rat(th, 100)),
           RAdd(Xi(SetMax(P), th), Rat(th, 100)), "beech").v

\* np.sum(Ax * v3)
Flux(r, th, dummy, P) ==
    IF P = {} THEN 0
    ELSE LastRing(r, th, P) * SumTo([i \in 1..NPoints |->
                                        IF (i - 1) \in P THEN dummy[i] ELSE 0], NPoints)

Chosen(vout, r, th, dummy, act) ==
    IF act.raised THEN act
    ELSE IF vout THEN Return([kind |-> "distribution", v |-> dummy])
    ELSE Return([kind |-> "flux", v |-> Flux(r, th, dummy, Active(th, act.v))])

Spread(res, rel, vout, r, th, perc, tree) ==
    IF res.raised THEN res
    ELSE Chosen(vout, r, th, Distribution(res.v, rel.v), gebauer_act(
                    [kind |-> "float", v |-> r], perc, tree))

Measured(th, r, s1, s2, vout, perc, tree) ==
    IF th.raised THEN th
    ELSE Spread(Fit(gebauer_rel(r, tree), th.v, s1, s2), gebauer_rel(r, tree),
                 vout, r, th.v, perc, tree)

sap_volume(r, s1, s2, vout, perc, tree) ==
    Measured(gebauer(r, tree), r, s1, s2, vout, perc, tree)

\* one pass of the loop of sap_calc over the row <<inner, mid, outer>>
Cells(v, mid, outer, a1, a2) ==
    IF v.raised THEN v
    ELSE IF a1.raised THEN a1
    ELSE IF a2.raised THEN a2
    ELSE Return(<<v.v.v, 100 * mid * a1.v, 100 * outer * a2.v>>)

\* SapRow with the inner velocity as s1 and the mid velocity as s2
SapRowSwapped(row, r, perc, tree) ==
    Cells(sap_volume(r, row[1], row[2], FALSE, perc, tree), row[2], row[3],
          A_circ(r, Num(110), Num(240), tree), A_circ(r, Num(0), Num(110), tree))

SapRow(row, r, perc, tree) ==
    Cells(sap_volume(r, row[2], row[1], FALSE, perc, tree), row[2], row[3],
          A_circ(r, Num(110), Num(240), tree), A_circ(r, Num(0), Num(110), tree))

----------------------------------------------------------------------------
(* vG_conv.py.  A float is a number with a significand of Precision bits,  *)
(* rounded to nearest, ties to even, after every operation.                *)

Precision == 4      \* bits of the significand of a float

RECURSIVE Pow2(_)
Pow2(k) == IF k = 0 THEN 1 ELSE 2 * Pow2(k - 1)

RDiv(x, y) == Rat(x[1] * y[2], x[2] * y[1])

\* n/d scaled by a power of two into [2^(Precision-1), 2^Precision): the
\* number is (n/d) * (down/up)
RECURSIVE Normal(_, _, _, _)
Normal(n, d, up, down) ==
    IF n >= d * Pow2(Precision) THEN Normal(n, 2 * d, up, 2 * down)
    ELSE IF n < d * Pow2(Precision - 1) THEN Normal(2 * n, d, 2 * up, down)
    ELSE [n |-> n, d |-> d, up |-> up, down |-> down]

RoundHalfEven(n, d) ==
    IF 2 * (n % d) > d \/ (2 * (n % d) = d /\ (n \div d) % 2 = 1)
    THEN n \div d + 1
    ELSE n \div d

Rounded(x, s) ==
    Rat((IF x[1] < 0 THEN -1 ELSE 1) * RoundHalfEven(s.n, s.d) * s.down, s.up)

\* the float nearest to the number x
Fl(x) == IF x[1] = 0 THEN x ELSE Rounded(x, Normal(Abs(x[1]), x[2], 1, 1))

FAdd(x, y) == Fl(RAdd(x, y))
FSub(x, y) == Fl(RSub(x, y))
FMul(x, y) == Fl(RMul(x, y))
FDiv(x, y) == Fl(RDiv(x, y))

\* th_star = (theta - thr) / (ths - thr)
thst_theta(theta, ths, thr) == FDiv(FSub(theta, thr), FSub(ths, thr))

\* theta_thst without the residual moisture
ThetaNoResidual(th_star, ths, thr) == FMul(th_star, FSub(ths, thr))

\* theta = th_star * (ths - thr) + thr
theta_thst(th_star, ths, thr) == FAdd(FMul(th_star, FSub(ths, thr)), thr)

----------------------------------------------------------------------------
(* The inputs: soil-moisture series of NumDays days *)

NumDays == 3        \* calendar days of the input series
MaxDrop == 2        \* steepest change per sample, in units of 0.01 vol.%
MaxCols == 2        \* most sensor columns of a table handed to dfRWUc

Base == 20 * 100                \* 20 vol.%
DeclineStart == Hr(8)           \* time of day the day-time change starts
DeclineEnd == Hr(18)            \* and ends
DuskStart == Hr(17)             \* the same for a day that changes late
DuskEnd == Hr(19)

\* the change per sample before DeclineStart, between DeclineStart and
\* DeclineEnd, and after DeclineEnd
Shape(name, d) ==
    CASE name = "step"      -> [night |-> 0, day |-> -d, eve |-> 0]
      [] name = "recharge"  -> [night |-> 1, day |-> -d, eve |-> 1]
      [] name = "decline"   -> [night |-> -d, day |-> -d, eve |-> -d]
      [] name = "nightdrop" -> [night |-> -2, day |-> -d, eve |-> -2]
      [] name = "flat"      -> [night |-> 0, day |-> 0, eve |-> 0]
      [] name = "rise"      -> [night |-> 0, day |-> d, eve |-> 0]
      [] name = "rain"      -> [night |-> 0, day |-> -d, eve |-> 30 * d]
      [] name = "flood"     -> [night |-> 250, day |-> -d, eve |-> 0]
      [] name = "drain"     -> [night |-> -150, day |-> -d, eve |-> 0]
      [] name = "seep"      -> [night |-> -2 * d, day |-> -d, eve |-> -2 * d]
      [] name = "dusk"      -> [night |-> 0, day |-> -d, eve |-> d,
                                from |-> DuskStart, to |-> DuskEnd]

Shapes == {"step", "recharge", "decline", "nightdrop", "flat", "rise", "rain"}

\* the times of day between which a day of shape sh changes at its day rate
ChangeStart(sh) == IF "from" \in DOMAIN sh THEN sh.from ELSE DeclineStart
ChangeEnd(sh) == IF "to" \in DOMAIN sh THEN sh.to ELSE DeclineEnd

\* change since 00:00 at tick tod of a day of shape sh
Cum(sh, tod) ==
    LET sl == tod \div HalfHr
        a == ChangeStart(sh) \div HalfHr
        b == ChangeEnd(sh) \div HalfHr
    IN  sh.night * Min(sl, a) + sh.day * Max(0, Min(sl, b) - a)
        + sh.eve * Max(0, sl - b)

\* a series: even days have shape sA, odd days shape sB
RECURSIVE Before(_, _, _, _)
Before(sA, sB, d, day) ==
    IF day = 0 THEN Base
    ELSE Before(sA, sB, d, day - 1)
         + Cum(Shape(IF (day - 1) % 2 = 0 THEN sA ELSE sB, d), TicksPerDay)

Moisture(sA, sB, d, t) ==
    Before(sA, sB, d, DateOf(t))
    + Cum(Shape(IF DateOf(t) % 2 = 0 THEN sA ELSE sB, d), t % TicksPerDay)

Series(idx, sA, sB, d) == [p \in DOMAIN idx |-> Moisture(sA, sB, d, idx[p])]

\* the timestamps: a sample every 30 minutes; "shifted": the logger runs 15
\* minutes late from noon of the second day on; "gap": no samples in the
\* small hours of the second day
Regular == [p \in 1..((NumDays * TicksPerDay) \div HalfHr) |-> (p - 1) * HalfHr]
Late(t) == t >= TicksPerDay + Hr(12)
InGap(t) == t > TicksPerDay /\ t < TicksPerDay + Hr(6)
NotInGap(t) == ~InGap(t)

Grid(g) ==
    CASE g = "regular" -> Regular
      [] g = "shifted" ->
            [p \in DOMAIN Regular |->
                IF Late(Regular[p]) THEN Regular[p] + 1 ELSE Regular[p]]
      [] g = "gap" -> SelectSeq(Regular, NotInGap)

Grids == {"regular", "shifted", "gap"}
Locations == {"default", "other"}

\* fRWU's defaults: diffx=3, slope_diff=3, maxdiffs=0.25, mintime=3.5
Defaults ==
    [loc |-> "default", diffx |-> 3, slope_diff |-> 3, maxdiffs |-> 25,
     mintime |-> Hr(3) + HalfHr, safeRWU |-> TRUE]

\* the inputs of the sap-flow functions
MaxVel == 1         \* fastest sap velocity, in cm/h
MaxRows == 2        \* most rows of a table handed to sap_calc
MaxLen == 2         \* longest array of radii handed to gebauer_act

Trees == GP \cup {"oak", "pine"}
Velocities == 0..MaxVel
\* the rows <<inner, mid, outer>> of a table of sap velocities: each sensor
\* either at rest or at the fastest velocity
Profiles == [1..3 -> {0, MaxVel}]
Floats == {[kind |-> "float", v |-> r] : r \in Radii}
Arrays ==
    UNION {{[kind |-> "array", v |-> rs] : rs \in [1..n -> Radii]} : n \in 0..MaxLen}
Percentiles == {50, 95}
\* the needles of the sensor: the rings 0 to 1.1 cm and 1.1 to 2.4 cm
Sensors == {<<0, 110>>, <<110, 240>>}

\* A matric head or a diffusivity is kept as the relative saturation `at`
\* which its closed form is evaluated for soil `soil`; the closed forms are
\* infinite at relative saturation 0
ClosedForm(x, k) == [inf |-> x[1] = 0, at |-> x, soil |-> k]

\* -1./alpha * ((1 - 0.98**(1/m)) / (0.98**(1/m)))**(1./n) for soil k
At98(k) == [inf |-> FALSE, at |-> Rat(98, 100), soil |-> k]

\* the soil of element i: the parameters are floats or arrays of the shape
\* of the result
SoilOf(soil, i) == IF soil = "array" THEN i ELSE 1

\* psi[np.isinf(psi)] = ... at the end of psi_thst and psi_theta
Replaced(psi, soil) ==
    IF \A i \in DOMAIN psi : ~psi[i].inf THEN Return([kind |-> "array", v |-> psi])
    ELSE IF soil = "float64" THEN Raise("IndexError")
    ELSE Return([kind |-> "array",
                 v |-> [i \in DOMAIN psi |->
                           IF psi[i].inf THEN At98(psi[i].soil) ELSE psi[i]]])

\* the closed form and the clamp of psi_thst and psi_theta for the relative
\* saturations x.  Python floats throughout: a division by zero raises.
\* A numpy scalar is not iterable and is returned as computed.  An array
\* over the saturations, or over the soils for one saturation, is clamped.
Psi(kind, x, soil) ==
    IF kind = "array"
    THEN Replaced([i \in DOMAIN x |-> ClosedForm(x[i], SoilOf(soil, i))], soil)
    ELSE IF soil = "array"
    THEN Replaced([k \in 1..MaxLen |-> ClosedForm(x[1], k)], soil)
    ELSE IF kind = "float" /\ soil = "float" /\ x[1][1] = 0
    THEN Raise("ZeroDivisionError")
    ELSE Return([kind |-> "scalar", v |-> <<ClosedForm(x[1], 1)>>])

psi_thst(th_star, soil) == Psi(th_star.kind, th_star.v, soil)

psi_theta(theta, ths, thr, soil) ==
    Psi(theta.kind, [i \in DOMAIN theta.v |-> thst_theta(theta.v[i], ths, thr)], soil)

Upper == Rat(9899, 10000)
Lower == Rat(1, 100)
Step == Rat(1, 100)

\* th_star[th_star>0.9899]=0.9899; th_star[th_star<0.01]=0.01
Clamp(x) == IF RLt(Upper, x) THEN Upper ELSE IF RLt(x, Lower) THEN Lower ELSE x

\* what `th_star+=0.01` leaves in th_star, and th_star1 = th_star - 0.01
Above(x) == [i \in DOMAIN x |-> RAdd(Clamp(x[i]), Step)]
Below(x) == [i \in DOMAIN x |-> RSub(Clamp(x[i]), Step)]

\* the caller's object after the first lines of dpsidtheta_thst and
\* dDdtheta_thst: an array is clamped and raised in place, a float is
\* rebound to a new local value
InPlace(th_star) ==
    IF th_star.kind = "array" THEN [kind |-> "array", v |-> Above(th_star.v)]
    ELSE th_star

\* psi[np.isinf(psi)] = ... on an array, lines 129-132
Cleared(kind, f) == IF kind = "array" /\ f.inf THEN At98(f.soil) ELSE f

\* (psist - psi) / (thetast - theta) element by element: the two heads
Quotient(kind, hi, lo, clear) ==
    IF kind = "float" /\ \E i \in DOMAIN lo : lo[i][1] = 0
    THEN Raise("ZeroDivisionError")
    ELSE Return([kind |-> IF kind = "array" THEN "array" ELSE "scalar",
                 v |-> [i \in DOMAIN hi |->
                           [at |-> IF clear THEN Cleared(kind, ClosedForm(hi[i], 1))
                                   ELSE ClosedForm(hi[i], 1),
                            st |-> IF clear THEN Cleared(kind, ClosedForm(lo[i], 1))
                                   ELSE ClosedForm(lo[i], 1)]]])

\* the slope of the matric head between th_star - 0.01 and th_star + 0.01
dpsidtheta_thst(th_star) ==
    [res |-> Quotient(th_star.kind, Above(th_star.v), Below(th_star.v), TRUE),
     arg |-> InPlace(th_star)]

\* the slope of the diffusivity D_thst between the same two saturations
dDdtheta_thst(th_star) ==
    [res |-> Quotient(th_star.kind, Above(th_star.v), Below(th_star.v), FALSE),
     arg |-> InPlace(th_star)]

\* the inputs of the conversions of vG_conv.py: the floats of the binade
\* [2^-(k+1), 2^-k)
Binade(k) ==
    {Rat(m, Pow2(Precision + k)) : m \in Pow2(Precision - 1)..(Pow2(Precision) - 1)}
Doubles == UNION {Binade(k) : k \in 0..(Precision - 1)}
Residuals == Binade(Precision - 1)      \* the residual moistures thr
Saturations == Binade(0)                \* the saturated moistures ths

NoArray == <<>>

\* relative saturations at the dry end, in the middle and at saturation
Levels == {Num(0), Rat(1, 2), Num(1)}

\* one soil for psi_theta
Soil == [thr |-> Rat(1, 16), ths |-> Rat(1, 2)]
Moistures == {Soil.thr, Rat(1, 4), Soil.ths}

\* the objects a caller hands in: a Python float, a numpy scalar or an array
Objects(values) ==
    {[kind |-> k, v |-> <<x>>] : k \in {"float", "float64"}, x \in values}
    \cup UNION {{[kind |-> "array", v |-> xs] : xs \in [1..n -> values]} :
                   n \in 1..MaxLen}

\* the types of the soil parameters alpha and n
SoilKinds == {"float", "float64", "array"}

----------------------------------------------------------------------------
(* The calls *)

\* fRWU, lines 100-131: the location, the smoothed difference and the empty
\* result frame for series column c of the table
Setup(c, loc) ==
    /\ l' = loc
    /\ ts' = table.data[c]
    /\ dif_ts' = gaussian_filter1d(Diff(table.data[c], par.diffx))
    /\ RWU' = [i \in DOMAIN ddx |-> EmptyRow]
    /\ dayi' = 1

NoTables == <<>>

Idle ==
    /\ pc = "call"
    /\ exc = ""
    /\ col = 0
    /\ l = ""
    /\ ts = <<>>
    /\ dif_ts = <<>>
    /\ RWU = <<>>
    /\ dayi = 0
    /\ out = NoTables
    /\ Sap = <<>>
    /\ rowi = 0

\* a call of a function of vG_conv.py
Retention ==
    /\ Idle
    /\ table = NoTables
    /\ \/ \* moisture -> relative saturation -> moisture
          /\ entry = "thst_theta"
          /\ \E thr \in Residuals, ths \in Saturations, theta \in Doubles :
                /\ RLt(thr, theta)
                /\ RLt(theta, ths)
                /\ arg = [kind |-> "float", v |-> <<theta>>]
                /\ par = [ths |-> ths, thr |-> thr, x |-> <<theta>>]
       \/ \* relative saturation -> matric head
          /\ entry = "psi_thst"
          /\ arg \in Objects(Levels)
          /\ \E soil \in SoilKinds : par = [soil |-> soil, x |-> arg.v]
       \/ \* moisture -> matric head
          /\ entry = "psi_theta"
          /\ arg \in Objects(Moistures)
          /\ \E soil \in SoilKinds :
                par = [soil |-> soil, ths |-> Soil.ths, thr |-> Soil.thr, x |-> arg.v]
       \/ \* the slopes of matric head and diffusivity, float parameters
          /\ entry \in {"dpsidtheta_thst", "dDdtheta_thst"}
          /\ arg \in Objects(Levels)
          /\ par = [soil |-> "float", x |-> arg.v]

\* a call of a function of rootwater.py or sapflow.py
Rootwater ==
    /\ Idle
    /\ arg = NoArray
    /\ \/ \* fRWU on one series, default arguments
          /\ entry = "fRWU"
          /\ par = Defaults
          /\ \E g \in Grids, sA \in Shapes, sB \in Shapes, d \in 1..MaxDrop :
                table = [index |-> Grid(g), labels |-> <<"theta">>,
                         data |-> <<Series(Grid(g), sA, sB, d)>>]
       \/ \* fRWU with the caller's own location and thresholds
          /\ entry = "fRWU"
          /\ \E loc \in Locations, md \in {25, 100 * 100}, mt \in {Hr(3) + HalfHr, Hr(12)},
                sd \in {1, 3} :
                par = [Defaults EXCEPT !.loc = loc, !.maxdiffs = md, !.mintime = mt,
                                       !.slope_diff = sd]
          /\ \E sA \in {"step", "recharge", "nightdrop", "rain", "flood", "drain"},
                d \in 1..MaxDrop :
                table = [index |-> Regular, labels |-> <<"theta">>,
                         data |-> <<Series(Regular, sA, "recharge", d)>>]
       \/ \* fRWU on a series whose second day holds still until late afternoon
          /\ entry = "fRWU"
          /\ \E loc \in Locations, mt \in {Hr(2), Hr(3) + HalfHr} :
                par = [Defaults EXCEPT !.loc = loc, !.mintime = mt]
          /\ \E sA \in {"flat", "step", "rise"}, d \in 1..MaxDrop :
                table = [index |-> Regular, labels |-> <<"theta">>,
                         data |-> <<Series(Regular, sA, "dusk", d)>>]
       \/ \* dfRWUc on a table of sensor columns
          /\ entry = "dfRWUc"
          /\ \E loc \in Locations, safe \in BOOLEAN :
                par = [Defaults EXCEPT !.loc = loc, !.safeRWU = safe]
          /\ \E n \in 1..MaxCols :
                \E kinds \in [1..n -> {"step", "recharge", "seep", "rise"}] :
                    table = [index |-> Regular,
                             labels |-> [k \in 1..n |-> <<"sensor", k>>],
                             data |-> [k \in 1..n |->
                                          Series(Regular, kinds[k], "recharge", MaxDrop)]]
       \/ \* the functions of sapflow.py
          /\ table = NoTables
          /\ \/ /\ entry \in {"roessler", "gebauer", "gebauer_rel"}
                /\ \E r \in Radii, tree \in Trees : par = [r |-> r, tree |-> tree]
             \/ /\ entry = "gebauer_act"
                /\ \E perc \in Percentiles, tree \in Trees :
                      \/ \E r \in Floats : par = [r |-> r, perc |-> perc, tree |-> tree]
                      \/ \E r \in Arrays : par = [r |-> r, perc |-> perc, tree |-> tree]
             \/ /\ entry = "sap_volume"
                /\ \E r \in Radii, s1 \in Velocities, s2 \in Velocities,
                      vout \in BOOLEAN, tree \in Trees :
                      par = [r |-> r, s1 |-> s1, s2 |-> s2, vout |-> vout,
                             perc |-> 95, tree |-> tree]
             \/ /\ entry = "A_circ"
                /\ \E r \in Radii, sens \in Sensors, tree \in Trees :
                      par = [r |-> r, sens |-> sens, tree |-> tree]
       \/ \* sap_calc on a table of sap velocities
          /\ entry = "sap_calc"
          /\ \E r \in Radii, tree \in Trees : par = [r |-> r, perc |-> 95, tree |-> tree]
          /\ \E n \in 0..MaxRows : \E rows \in [1..n -> Profiles] :
                table = [index |-> [i \in 1..n |-> i],
                         labels |-> <<"inner", "mid", "outer">>,
                         data |-> [k \in 1..3 |-> [i \in 1..n |-> rows[i][k]]]]

Init == Rootwater \/ Retention

\* fRWU is called
fRWU_begin ==
    /\ pc = "call"
    /\ entry = "fRWU"
    /\ Setup(1, par.loc)
    /\ pc' = "loop"
    /\ UNCHANGED <<arg, entry, par, table, col, out, exc, Sap, rowi>>

\* RWU.loc[dd] = d.row, unless dayRWU2 raised
Assign(d) ==
    IF d.raised
    THEN /\ pc' = "raised"
         /\ exc' = "KeyError"
         /\ UNCHANGED <<RWU, dayi>>
    ELSE /\ RWU' = [RWU EXCEPT ![dayi] = d.row]
         /\ dayi' = dayi + 1
         /\ UNCHANGED <<pc, exc>>

\* one pass of `for dd in ddx[:-1]: RWU.loc[dd] = dayRWU2(dd)`
fRWU_day ==
    /\ pc = "loop"
    /\ dayi <= Len(ddx) - 1
    /\ Assign(dayRWU2(ddx[dayi]))
    /\ UNCHANGED <<arg, entry, par, table, col, l, ts, dif_ts, out, Sap, rowi>>

\* `return RWU`, to the caller or to dfRWUc
fRWU_return ==
    /\ pc = "loop"
    /\ dayi > Len(ddx) - 1
    /\ pc' = IF entry = "fRWU" THEN "done" ELSE "collect"
    /\ UNCHANGED <<arg, entry, par, table, col, l, ts, dif_ts, RWU, dayi, out, exc, Sap, rowi>>

\* Refuse without the test of the sign
RefuseControl(row, c) ==
    IF ~IsNaN(row.step_control) /\ RLt(row.step_control, Num(1100)) THEN NaN
    ELSE row[c]

\* dummz.loc[dummz.step_control<1100, c] = np.nan; dummz.loc[dummz[c]<0., c] = np.nan
\* on one cell of column c: a comparison with NaN selects nothing
Refuse(row, c) ==
    IF ~IsNaN(row.step_control) /\ RLt(row.step_control, Num(1100)) THEN NaN
    ELSE IF ~IsNaN(row[c]) /\ RLt(row[c], Num(0)) THEN NaN
    ELSE row[c]

\* dummz after the quality control of rwu and rwu_nonight (in place)
Controlled(dummz) ==
    IF par.safeRWU
    THEN [i \in DOMAIN dummz |->
             [dummz[i] EXCEPT !.rwu = Refuse(dummz[i], "rwu"),
                              !.rwu_nonight = Refuse(dummz[i], "rwu_nonight")]]
    ELSE dummz

\* dummz[c] as a pandas Series
Column(dummz, c) ==
    [frame |-> FALSE, names |-> <<c>>, cols |-> <<[i \in DOMAIN dummz |-> dummz[i][c]]>>]

\* pd.concat([a, b], axis=1) of objects over the same days
Concat(a, b) ==
    [frame |-> TRUE, names |-> a.names \o b.names, cols |-> a.cols \o b.cols]

\* x.columns = labels: renames the columns of a DataFrame; on a Series it
\* only sets an attribute
SetColumns(x, labels) ==
    IF x.frame THEN [x EXCEPT !.names = labels] ELSE x

\* dfRWUc is called: fRWU on the first column, at the caller's location
dfRWUc_begin ==
    /\ pc = "call"
    /\ entry = "dfRWUc"
    /\ col' = 1
    /\ Setup(1, par.loc)
    /\ pc' = "loop"
    /\ UNCHANGED <<arg, entry, par, table, out, exc, Sap, rowi>>

\* the three result objects after the columns of dummz joined them
Joined(dummz) ==
    IF col = 1
    THEN [dummx |-> Column(dummz, "rwu"), dummy |-> Column(dummz, "rwu_nonight"),
          dummc |-> Column(dummz, "eval_nse")]
    ELSE [dummx |-> Concat(out.dummx, Column(dummz, "rwu")),
          dummy |-> Concat(out.dummy, Column(dummz, "rwu_nonight")),
          dummc |-> Concat(out.dummc, Column(dummz, "eval_nse"))]

\* fRWU has returned dummz: quality control, then the columns join the results
dfRWUc_collect ==
    /\ pc = "collect"
    /\ RWU' = Controlled(RWU)
    /\ out' = Joined(Controlled(RWU))
    /\ pc' = "next"
    /\ UNCHANGED <<arg, entry, par, table, col, l, ts, dif_ts, dayi, exc, Sap, rowi>>

\* `for i in dummyc[1:]: dummz = fRWU(dummyd[i])`
dfRWUc_next ==
    /\ pc = "next"
    /\ col < Len(table.labels)
    /\ col' = col + 1
    /\ Setup(col + 1, Defaults.loc)
    /\ pc' = "loop"
    /\ UNCHANGED <<arg, entry, par, table, out, exc, Sap, rowi>>

\* the column labels are set and the three tables returned
dfRWUc_return ==
    /\ pc = "next"
    /\ col = Len(table.labels)
    /\ out' = [dummx |-> SetColumns(out.dummx, table.labels),
               dummy |-> SetColumns(out.dummy, table.labels),
               dummc |-> SetColumns(out.dummc, table.labels)]
    /\ pc' = "done"
    /\ UNCHANGED <<arg, entry, par, table, col, l, ts, dif_ts, RWU, dayi, exc, Sap, rowi>>

\* a function of sapflow.py returns res to the caller, or raises
Finish(res) ==
    IF res.raised
    THEN /\ pc' = "raised"
         /\ exc' = res.exc
         /\ out' = out
    ELSE /\ pc' = "done"
         /\ out' = res.v
         /\ exc' = exc

roessler_call ==
    /\ pc = "call"
    /\ entry = "roessler"
    /\ Finish(roessler(par.r, par.tree))
    /\ UNCHANGED <<arg, entry, par, table, col, l, ts, dif_ts, RWU, dayi, Sap, rowi>>

gebauer_call ==
    /\ pc = "call"
    /\ entry = "gebauer"
    /\ Finish(gebauer(par.r, par.tree))
    /\ UNCHANGED <<arg, entry, par, table, col, l, ts, dif_ts, RWU, dayi, Sap, rowi>>

gebauer_rel_call ==
    /\ pc = "call"
    /\ entry = "gebauer_rel"
    /\ Finish(gebauer_rel(par.r, par.tree))
    /\ UNCHANGED <<arg, entry, par, table, col, l, ts, dif_ts, RWU, dayi, Sap, rowi>>

gebauer_act_call ==
    /\ pc = "call"
    /\ entry = "gebauer_act"
    /\ Finish(gebauer_act(par.r, par.perc, par.tree))
    /\ UNCHANGED <<arg, entry, par, table, col, l, ts, dif_ts, RWU, dayi, Sap, rowi>>

sap_volume_call ==
    /\ pc = "call"
    /\ entry = "sap_volume"
    /\ Finish(sap_volume(par.r, par.s1, par.s2, par.vout, par.perc, par.tree))
    /\ UNCHANGED <<arg, entry, par, table, col, l, ts, dif_ts, RWU, dayi, Sap, rowi>>

A_circ_call ==
    /\ pc = "call"
    /\ entry = "A_circ"
    /\ Finish(A_circ(par.r, Num(par.sens[1]), Num(par.sens[2]), par.tree))
    /\ UNCHANGED <<arg, entry, par, table, col, l, ts, dif_ts, RWU, dayi, Sap, rowi>>

\* sap_calc is called: Sap = SV.copy() * np.nan
sap_calc_begin ==
    /\ pc = "call"
    /\ entry = "sap_calc"
    /\ Sap' = [i \in DOMAIN table.index |-> <<NaN, NaN, NaN>>]
    /\ rowi' = 1
    /\ pc' = "rows"
    /\ UNCHANGED <<arg, entry, par, table, col, l, ts, dif_ts, RWU, dayi, out, exc>>

\* Sap.loc[i, colx] = the three cells, unless a call raised
Store(res) ==
    IF res.raised
    THEN /\ pc' = "raised"
         /\ exc' = res.exc
         /\ UNCHANGED <<Sap, rowi>>
    ELSE /\ Sap' = [Sap EXCEPT ![rowi] = res.v]
         /\ rowi' = rowi + 1
         /\ UNCHANGED <<pc, exc>>

\* one pass of `for i in Sap.index`
sap_calc_row ==
    /\ pc = "rows"
    /\ rowi <= Len(table.index)
    /\ Store(SapRow([k \in 1..3 |-> table.data[k][rowi]], par.r, par.perc, par.tree))
    /\ UNCHANGED <<arg, entry, par, table, col, l, ts, dif_ts, RWU, dayi, out>>

\* `return Sap`
sap_calc_return ==
    /\ pc = "rows"
    /\ rowi > Len(table.index)
    /\ out' = Sap
    /\ pc' = "done"
    /\ UNCHANGED <<arg, entry, par, table, col, l, ts, dif_ts, RWU, dayi, exc, Sap, rowi>>

\* thst_theta(theta, ths, thr) is called
thst_theta_call ==
    /\ pc = "call"
    /\ entry = "thst_theta"
    /\ out' = thst_theta(arg.v[1], par.ths, par.thr)
    /\ pc' = "converted"
    /\ UNCHANGED <<arg, entry, par, table, col, l, ts, dif_ts, RWU, dayi, exc, Sap, rowi>>

\* the caller hands the relative saturation to theta_thst(th_star, ths, thr)
theta_thst_call ==
    /\ pc = "converted"
    /\ entry = "thst_theta"
    /\ out' = [th_star |-> out, theta |-> theta_thst(out, par.ths, par.thr)]
    /\ pc' = "done"
    /\ UNCHANGED <<arg, entry, par, table, col, l, ts, dif_ts, RWU, dayi, exc, Sap, rowi>>

psi_thst_call ==
    /\ pc = "call"
    /\ entry = "psi_thst"
    /\ Finish(psi_thst(arg, par.soil))
    /\ UNCHANGED <<arg, entry, par, table, col, l, ts, dif_ts, RWU, dayi, Sap, rowi>>

psi_theta_call ==
    /\ pc = "call"
    /\ entry = "psi_theta"
    /\ Finish(psi_theta(arg, par.ths, par.thr, par.soil))
    /\ UNCHANGED <<arg, entry, par, table, col, l, ts, dif_ts, RWU, dayi, Sap, rowi>>

dpsidtheta_thst_call ==
    /\ pc = "call"
    /\ entry = "dpsidtheta_thst"
    /\ Finish(dpsidtheta_thst(arg).res)
    /\ arg' = dpsidtheta_thst(arg).arg
    /\ UNCHANGED <<entry, par, table, col, l, ts, dif_ts, RWU, dayi, Sap, rowi>>

dDdtheta_thst_call ==
    /\ pc = "call"
    /\ entry = "dDdtheta_thst"
    /\ Finish(dDdtheta_thst(arg).res)
    /\ arg' = dDdtheta_thst(arg).arg
    /\ UNCHANGED <<entry, par, table, col, l, ts, dif_ts, RWU, dayi, Sap, rowi>>

Next ==
    \/ fRWU_begin
    \/ fRWU_day
    \/ fRWU_return
    \/ dfRWUc_begin
    \/ dfRWUc_collect
    \/ dfRWUc_next
    \/ dfRWUc_return
    \/ roessler_call
    \/ gebauer_call
    \/ gebauer_rel_call
    \/ gebauer_act_call
    \/ sap_volume_call
    \/ A_circ_call
    \/ sap_calc_begin
    \/ sap_calc_row
    \/ sap_calc_return
    \/ thst_theta_call
    \/ theta_thst_call
    \/ psi_thst_call
    \/ psi_theta_call
    \/ dpsidtheta_thst_call
    \/ dDdtheta_thst_call

Spec == Init /\ [][Next]_vars

----------------------------------------------------------------------------
(* Properties of fRWU and dfRWUc *)

\* the rows fRWU has filled in so far
Processed == {i \in DOMAIN RWU : ~IsNaN(RWU[i].step_control)}

\* every sample between the times a and b holds the value v
FlatAt(a, b, v) == \A p \in DOMAIN index : index[p] >= a /\ index[p] <= b => ts[p] = v

\* no sample between the times a and b is above its predecessor
NonIncreasing(a, b) ==
    \A p \in DOMAIN index :
        p > 1 /\ index[p - 1] >= a /\ index[p] <= b => ts[p] <= ts[p - 1]

NightLevel(dd) == ts[LocLo(index, dd * TicksPerDay + DeclineStart)]
EveningLevel(dd) == ts[LocHi(index, suns(dd) + Hr(2))]
Amplitude(dd) == NightLevel(dd) - EveningLevel(dd)

\* day dd of the series is a step: flat from the end of the previous day's
\* change to DeclineStart, falling until DeclineEnd, flat from there to the end
\* of the day's search window
StepShaped(dd) ==
    /\ FlatAt((dd - 1) * TicksPerDay + DeclineEnd, dd * TicksPerDay + DeclineStart,
              NightLevel(dd))
    /\ NonIncreasing(dd * TicksPerDay + DeclineStart, dd * TicksPerDay + DeclineEnd)
    /\ FlatAt(dd * TicksPerDay + DeclineEnd, suns(dd) + Hr(2), EveningLevel(dd))
    /\ Amplitude(dd) > 0

\* C1: on a step-shaped day (flat at night, falling through the day, flat
\* again afterwards) fRWU, called with its default minimum time span, reports
\* step_control = 1111 and an rwu equal to the amplitude of the day-time
\* decline
C1_StepDayFullyValid ==
    \A i \in Processed :
        StepShaped(ddx[i]) /\ par.mintime = Defaults.mintime =>
            /\ RWU[i].step_control = Num(1111)
            /\ RWU[i].rwu = Num(Amplitude(ddx[i]))

C1_Witness ==
    \E i \in Processed :
        /\ StepShaped(ddx[i])
        /\ par.mintime = Defaults.mintime
        /\ RWU[i].step_control = Num(1111)
        /\ RWU[i].rwu = Num(Amplitude(ddx[i]))

\* the smoothed difference is never non-negative in the search window of dd
Monotone(dd) ==
    \A p \in SearchWindow(dd).lo..SearchWindow(dd).hi : ~NotDeclining(p)

Nearest(t) == index[get_loc_nearest(index, t)]

OneHourAfter(row, dd) ==
    /\ row.tin = Num(Nearest(suns(dd - 1) + Hr(1)))
    /\ row.tout = Num(Nearest(sunr(dd) + Hr(1)))
    /\ row.tix = Num(Nearest(suns(dd) + Hr(1)))

\* C2: when the crossing search of a day fails, as it does on a series that
\* declines monotonically over the search window, the reference times are
\* the samples nearest to one hour after the previous sunset, the sunrise
\* and the sunset, and evalx is 0; a successful search is recorded as evalx 1
C2_FallbackTimes ==
    \A i \in Processed :
        /\ Monotone(ddx[i]) => RWU[i].evalx = Num(0)
        /\ RWU[i].evalx = Num(0) => OneHourAfter(RWU[i], ddx[i])
        /\ RWU[i].evalx = Num(1) <=> CrossingSearch(ddx[i]).found
        /\ RWU[i].evalx \in {Num(0), Num(1)}

C2_Witness ==
    \E i \in Processed :
        /\ Monotone(ddx[i])
        /\ RWU[i].evalx = Num(0)
        /\ OneHourAfter(RWU[i], ddx[i])
        /\ \E j \in Processed : RWU[j].evalx = Num(1)

\* C3: no input series and no day makes fRWU raise (a failed crossing
\* search, a short span, a drift, a failed regression or a reference time off
\* the sampling grid give a NaN row with a code), and when fRWU returns every
\* day but the last has its row
C3_NeverRaises ==
    entry \in {"fRWU", "dfRWUc"} =>
        /\ pc # "raised"
        /\ exc = ""
        /\ pc \in {"done", "collect", "next"} =>
               \A i \in 1..(Len(ddx) - 1) : i \in Processed

\* the night slope per sample over the number of samples in six hours, in
\* units of 0.01 vol.%
Normalised(slope) == RMul(slope, Rat(freqx, Hr(6)))

Bits(row) ==
      (IF RLt(Rat(-50, 6), Normalised(row.lm_night)) THEN 10 ELSE 0)
    + (IF RLt(Normalised(row.lm_night), Rat(100, 6)) THEN 100 ELSE 0)
    + (IF RLt(row.lm_day, Num(0)) THEN 1000 ELSE 0)
    + (IF RLt(row.lm_day, RMul(Num(par.slope_diff), row.lm_night)) THEN 1 ELSE 0)

\* the rows for which both regressions were fitted
Fitted == {i \in Processed : ~IsNaN(RWU[i].lm_day)}

NewCell(o, c, i) ==
    IF c = "rwu" THEN o.dummx.cols[Len(o.dummx.cols)][i]
    ELSE o.dummy.cols[Len(o.dummy.cols)][i]

\* a cell the quality control lets through
Safe(row, c) ==
    /\ ~IsNaN(row.step_control)
    /\ ~RLt(row.step_control, Num(1100))
    /\ ~IsNaN(row[c])
    /\ ~RLt(row[c], Num(0))

Filtered(row, new, c) ==
    IF par.safeRWU THEN IF Safe(row, c) THEN new = row[c] ELSE IsNaN(new)
    ELSE new = row[c]

\* the columns of `earlier` are the first columns of `later`
Kept(earlier, later) ==
    \A k \in DOMAIN earlier.cols : later.cols[k] = earlier.cols[k]

\* C5: with safeRWU a cell of the rwu and rwu_nonight tables of dfRWUc is
\* non-NaN only if the day's step_control is at least 1100 and the value is
\* not negative; without safeRWU the cells are those of fRWU; and a column
\* that joined a table stays as it is
C5_SafeFilter ==
    [][/\ pc = "collect" =>
            \A i \in DOMAIN RWU : \A c \in {"rwu", "rwu_nonight"} :
                Filtered(RWU[i], NewCell(out', c, i), c)
       /\ (pc = "collect" /\ col > 1) \/ (pc = "next" /\ pc' = "done") =>
            /\ Kept(out.dummx, out'.dummx)
            /\ Kept(out.dummy, out'.dummy)]_vars

\* the quality control has refused an estimate of a fitted day
C5_Witness ==
    /\ pc = "done"
    /\ entry = "dfRWUc"
    /\ par.safeRWU
    /\ \E k \in DOMAIN out.dummx.cols : \E i, j \in DOMAIN ddx :
          /\ IsNaN(out.dummx.cols[k][i])
          /\ ~IsNaN(out.dummc.cols[k][i])
          /\ ~IsNaN(out.dummx.cols[k][j])

Tables == {out.dummx, out.dummy, out.dummc}

\* C6: dfRWUc returns three tables (rwu, rwu_nonight, eval_nse), each with
\* the column labels of the input in the input's order and a row for every
\* calendar day
C6_ThreeLabelledTables ==
    pc = "done" /\ entry = "dfRWUc" =>
        \A t \in Tables :
            /\ t.frame
            /\ t.names = table.labels
            /\ Len(t.cols) = Len(table.labels)
            /\ \A k \in DOMAIN t.cols : DOMAIN t.cols[k] = DOMAIN ddx

----------------------------------------------------------------------------
(* Properties of the sap-flow functions *)

SapFunctions ==
    {"roessler", "gebauer", "gebauer_rel", "gebauer_act", "sap_volume", "A_circ",
     "sap_calc"}

\* the rows of SV that sap_calc has worked through
Stored == IF entry = "sap_calc" THEN 1..(rowi - 1) ELSE {}

ZeroRow(i) == \A k \in 1..3 : table.data[k][i] = 0

\* C7: a row of SV with sap velocity zero at all three depths gets zero sap
\* flow in all three columns of the table sap_calc returns
C7_ZeroVelocityZeroFlow ==
    /\ \A i \in Stored : ZeroRow(i) => Sap[i] = <<0, 0, 0>>
    /\ entry = "sap_calc" /\ pc = "done" => out = Sap

C7_Witness ==
    /\ entry = "sap_calc"
    /\ pc = "done"
    /\ \E i, j \in DOMAIN out :
          /\ ZeroRow(i)
          /\ out[i] = <<0, 0, 0>>
          /\ ~ZeroRow(j)
          /\ out[j] # <<0, 0, 0>>

\* the names no function of the toolbox knows
Unsupported == Trees \ (GP \cup {"oak"})

\* C8: a sap-flow function that is handed a tree name that is no supported
\* species raises, and returns nothing
C8_UnsupportedRaises ==
    entry \in SapFunctions /\ par.tree \in Unsupported =>
        /\ pc # "done"
        /\ out = NoTables

\* a radius at which the sensor depths lie inside the sapwood
ValidRadius(r) ==
    IF entry = "gebauer_act"
    THEN IF r.kind = "float" THEN r.v = 32 ELSE \A i \in DOMAIN r.v : r.v[i] = 32
    ELSE r = 32

\* C9: sap_volume, gebauer_act and sap_calc return a result, and do not
\* raise, for every tree name that is a key of gp and a valid radius
C9_AcceptsEveryKey ==
    /\ entry \in {"sap_volume", "gebauer_act", "sap_calc"}
    /\ par.tree \in GP
    /\ ValidRadius(par.r)
    => pc # "raised"

\* C10: sap_volume returns the aggregated volume flux when vout is True and
\* the velocity distribution over the radial positions when vout is False
C10_VoutSelects ==
    entry = "sap_volume" /\ pc = "done" =>
        out.kind = IF par.vout THEN "flux" ELSE "distribution"

\* the annular area at position i of the radial grid, as sap_volume asks
\* A_circ for it
RingAt(r, th, i, tree) ==
    A_circ(r, RSub(Xi(i, th), Rat(th, 100)), RAdd(Xi(i, th), Rat(th, 100)), tree).v

\* the sum over the positions P of velocity times the area at that position
Integral(r, th, dummy, P, tree) ==
    SumTo([i \in 1..NPoints |->
              IF (i - 1) \in P THEN dummy[i] * RingAt(r, th, i - 1, tree) ELSE 0],
          NPoints)

IntegralOf(r, th, rel, res, act, tree) ==
    Integral(r, th, Distribution(res.v, rel), Active(th, act.v), tree)

\* C11: the flow sap_volume returns is the sum, over the radial positions
\* deeper than 2.4 cm and not deeper than the active sapwood, of the fitted
\* velocity at the position times the annular area at the same position
C11_FlowIsIntegral ==
    entry = "sap_volume" /\ pc = "done" /\ out.kind = "flux" =>
        out.v = IntegralOf(par.r, gebauer(par.r, par.tree).v,
                           gebauer_rel(par.r, par.tree).v,
                           Fit(gebauer_rel(par.r, par.tree),
                               gebauer(par.r, par.tree).v, par.s1, par.s2),
                           gebauer_act([kind |-> "float", v |-> par.r],
                                       par.perc, par.tree),
                           par.tree)

\* C12: for an array of radii gebauer_act returns an array of the same
\* length whose every element, the first included, is what the call with
\* that one radius returns
C12_ArrayElementwise ==
    entry = "gebauer_act" /\ par.r.kind = "array" /\ pc = "done" =>
        /\ Len(out) = Len(par.r.v)
        /\ \A i \in DOMAIN par.r.v :
               Return(out[i]) = ActFloat(par.r.v[i], par.perc, par.tree)

----------------------------------------------------------------------------
(* Properties of the Van Genuchten conversions *)

\* x and y differ by no more than four units of roundoff of y
Close(x, y) ==
    Abs(RSub(x, y)[1]) * y[2] * Pow2(Precision) <= 4 * y[1] * RSub(x, y)[2]

\* C13 as stated: for thr < theta < ths the round trip theta_thst(thst_theta(
\* theta)) returns theta and the relative saturation in between lies
\* strictly between 0 and 1
C13_RoundTripExact ==
    entry = "thst_theta" =>
        /\ pc = "converted" => RLt(Num(0), out) /\ RLt(out, Num(1))
        /\ pc = "done" => out.theta = arg.v[1]

\* C13: for thr < theta < ths the round trip theta_thst(thst_theta(theta))
\* returns theta up to the rounding of the four float operations, and the
\* relative saturation in between is above 0 and not above 1
C13_RoundTripClose ==
    entry = "thst_theta" =>
        /\ pc = "converted" => RLt(Num(0), out) /\ ~RLt(Num(1), out)
        /\ pc = "done" => Close(out.theta, arg.v[1])

\* a moisture next to saturation whose relative saturation rounds to 1 and
\* which the round trip does not return
C13_Witness ==
    /\ entry = "thst_theta"
    /\ pc = "done"
    /\ RLt(par.thr, arg.v[1])
    /\ RLt(arg.v[1], par.ths)
    /\ out.th_star = Num(1)
    /\ out.theta # arg.v[1]
    /\ Close(out.theta, arg.v[1])

\* the relative saturations the closed form of the running call is
\* evaluated at, and the soil of each element of the result
Saturation ==
    IF entry = "psi_theta"
    THEN [i \in DOMAIN par.x |-> thst_theta(par.x[i], par.ths, par.thr)]
    ELSE par.x
Broadcast ==
    IF arg.kind # "array" /\ par.soil = "array"
    THEN [k \in 1..MaxLen |-> ClosedForm(Saturation[1], k)]
    ELSE [i \in DOMAIN Saturation |-> ClosedForm(Saturation[i], SoilOf(par.soil, i))]

\* C14: psi_thst and psi_theta return no infinite matric head, for a scalar
\* as for an array: where the closed form is infinite the result holds the
\* head at relative saturation 0.98 of the same soil, and every other
\* element is as computed
C14_NeverInfinite ==
    entry \in {"psi_thst", "psi_theta"} =>
        /\ pc # "raised"
        /\ pc = "done" =>
               /\ Len(out.v) = Len(Broadcast)
               /\ \A i \in DOMAIN out.v :
                      out.v[i] = IF Broadcast[i].inf THEN At98(Broadcast[i].soil)
                                 ELSE Broadcast[i]

RetentionFunctions ==
    {"thst_theta", "psi_thst", "psi_theta", "dpsidtheta_thst", "dDdtheta_thst"}

\* C15: a conversion function leaves its arguments as they were: after the
\* call the caller's object holds the values it held before
C15_ArgumentsUnchanged ==
    entry \in RetentionFunctions => arg.v = par.x

----------------------------------------------------------------------------
(* Further properties of sap_calc *)

\* the three cells of row i of SV = <<inner, mid, outer>>: the flow fitted
\* to mid (s1) and inner (s2), mid times the ring between 1.1 and 2.4 cm,
\* outer times the ring between 0 and 1.1 cm
FlowOf(i) ==
    sap_volume(par.r, table.data[2][i], table.data[1][i], FALSE, par.perc,
               par.tree).v.v
MidOf(i) ==
    100 * table.data[2][i] * A_circ(par.r, Num(110), Num(240), par.tree).v
OuterOf(i) ==
    100 * table.data[3][i] * A_circ(par.r, Num(0), Num(110), par.tree).v

\* C16: sap_calc fills every row from the velocities of that row alone:
\* the flow sap_volume fits to the mid velocity (s1) and the inner velocity
\* (s2), the mid velocity times the ring area between 1.1 and 2.4 cm, the
\* outer velocity times the ring area between 0 and 1.1 cm; a row once
\* written stays, and the table of velocities is not modified
C16_RowByRow ==
    [][entry = "sap_calc" =>
          /\ table' = table
          /\ \A i \in 1..(rowi - 1) : Sap'[i] = Sap[i]
          /\ \A i \in 1..(rowi' - 1) : Sap'[i] = <<FlowOf(i), MidOf(i), OuterOf(i)>>
          /\ pc' = "done" => out' = Sap]_vars

\* sap_calc has returned a table of two rows with different velocities at
\* the inner and the mid point
C16_Witness ==
    /\ entry = "sap_calc"
    /\ pc = "done"
    /\ Len(out) > 1
    /\ \E i \in DOMAIN out :
          /\ table.data[1][i] # table.data[2][i]
          /\ out[i] = <<FlowOf(i), MidOf(i), OuterOf(i)>>
          /\ out[i][1] > 0

----------------------------------------------------------------------------
(* Further properties of fRWU *)

\* the calendar days from the first to the last sample
Spanned == DateOf(table.index[Len(table.index)]) - DateOf(table.index[1]) + 1

\* C17: the table of fRWU has one row for every calendar day the series
\* spans; the loop writes the rows in the order of the days, each row once
\* with the result of dayRWU2 for its day, a row not yet reached is NaN in
\* all ten columns, and when fRWU returns only the row of the last day is
\* left that way
C17_OneRowPerDay ==
    entry = "fRWU" /\ pc \in {"loop", "done"} =>
        /\ Len(RWU) = Spanned
        /\ dayi \in 1..Len(RWU)
        /\ \A i \in DOMAIN RWU :
               RWU[i] = IF i < dayi THEN dayRWU2(ddx[i]).row ELSE EmptyRow
        /\ pc = "done" => dayi = Len(RWU)

C17_Witness ==
    /\ entry = "fRWU"
    /\ pc = "done"
    /\ Len(RWU) = NumDays
    /\ RWU[NumDays] = EmptyRow
    /\ \A i \in 1..(NumDays - 1) : RWU[i] = dayRWU2(ddx[i]).row

\* the reference times of a row, and the night line fitted between them
TimesOf(row) == [tin |-> row.tin[1], tout |-> row.tout[1], tix |-> row.tix[1]]
NightLine(row) == ols(NightData(TimesOf(row)))

\* the night line at the time tix, counted in sampling steps from tin
Extrapolated(night, r) ==
    RAdd(night.Intercept, RMul(night.x, Num((r.tix - r.tin) \div freqx)))

Coincide(row, night, r) ==
    night.x = Num(0) /\ night.Intercept = Num(At(r.tout)) => row.rwu = row.rwu_nonight

Estimates(row, night, r) ==
    /\ row.rwu = RSub(Extrapolated(night, r), Num(At(r.tix)))
    /\ row.rwu_nonight = Num(At(r.tout) - At(r.tix))
    /\ Coincide(row, night, r)

\* C18: on a day that is not rejected rwu is the night regression line,
\* extrapolated from tin to tix, minus the moisture observed at tix, and
\* rwu_nonight is the moisture observed at tout minus the one at tix; with
\* a night slope of zero and a night intercept equal to the moisture at
\* tout the two are equal
C18_TwoEstimates ==
    entry = "fRWU" =>
        \A i \in Fitted : Estimates(RWU[i], NightLine(RWU[i]), TimesOf(RWU[i]))

\* fRWU has estimated a day with a flat night, where the two estimates
\* coincide, and one with a sloping night, where they differ
C18_Witness ==
    /\ entry = "fRWU"
    /\ \E i, j \in Fitted :
          /\ NightLine(RWU[i]).x = Num(0)
          /\ NightLine(RWU[i]).Intercept = Num(At(RWU[i].tout[1]))
          /\ RWU[i].rwu = RWU[i].rwu_nonight
          /\ RLt(Num(0), RWU[i].rwu)
          /\ NightLine(RWU[j]).x # Num(0)
          /\ RWU[j].rwu # RWU[j].rwu_nonight
          /\ Estimates(RWU[j], NightLine(RWU[j]), TimesOf(RWU[j]))

\* the position at which the decline of day dd starts: the first value at
\* or below -0.02 after the first non-negative value of the search window
DeclineAt(w) == FirstFalling(w, FirstNotDeclining(w))

\* the first position after `after` in the window with a non-negative
\* smoothed difference, 0 when there is none
FirstNonNegative(w, after) ==
    IF \E p \in w.lo..w.hi : NotDeclining(p) /\ p > after
    THEN SetMin({p \in w.lo..w.hi : NotDeclining(p) /\ p > after}) ELSE 0

DayEndOf(w) == FirstNonNegative(w, DeclineAt(w))

\* C19: when the crossing search succeeds, tix is the first sample after
\* the start of the decline at which the smoothed difference of the
\* moisture is non-negative
C19_DayEndNonNegative ==
    entry = "fRWU" =>
        \A i \in Processed :
            RWU[i].evalx = Num(1) =>
                /\ DayEndOf(SearchWindow(ddx[i])) # 0
                /\ RWU[i].tix = Num(index[DayEndOf(SearchWindow(ddx[i]))])

\* the search window of day dd holds, in this order, a non-negative
\* smoothed difference, one at or below -0.02 and a positive one
OrderExists(w) ==
    \E b \in w.lo..w.hi :
        /\ Falling(b)
        /\ \E a \in w.lo..(b - 1) : NotDeclining(a)
        /\ \E c \in (b + 1)..w.hi : Rising(c)

WindowStart(dd) == suns(dd - 1) - Hr(5)
WindowEnd(dd) == suns(dd) + Hr(2)

InWindow(t, dd) == t[1] >= WindowStart(dd) /\ t[1] <= WindowEnd(dd)

Ordered(row, dd) ==
    /\ row.tin[1] <= row.tout[1]
    /\ row.tout[1] < row.tix[1]
    /\ InWindow(row.tin, dd) /\ InWindow(row.tout, dd) /\ InWindow(row.tix, dd)

\* C20: on every day whose row has evalx = 1 the reference times satisfy
\* tin <= tout < tix and lie between the previous sunset minus 5 h and the
\* day's sunset plus 2 h; a day whose search window does not hold the three
\* crossings in this order never has evalx = 1
C20_OrderedInWindow ==
    entry = "fRWU" =>
        \A i \in Processed :
            /\ RWU[i].evalx = Num(1) => Ordered(RWU[i], ddx[i])
            /\ ~OrderExists(SearchWindow(ddx[i])) => RWU[i].evalx # Num(1)

C20_Witness ==
    /\ entry = "fRWU"
    /\ \E i \in Processed :
          /\ RWU[i].evalx = Num(1)
          /\ Ordered(RWU[i], ddx[i])
          /\ RWU[i].tin[1] < RWU[i].tout[1]
    /\ \E i \in Processed :
          /\ ~OrderExists(SearchWindow(ddx[i]))
          /\ \E p \in SearchWindow(ddx[i]).lo..SearchWindow(ddx[i]).hi : Falling(p)
          /\ RWU[i].evalx = Num(0)

\* the elapsed time of the night (tin to tout) and of the day (tout to tix)
NightSpan(row) == row.tout[1] - row.tin[1]
DaySpan(row) == row.tix[1] - row.tout[1]

LongEnough(row) == NightSpan(row) >= par.mintime /\ DaySpan(row) >= par.mintime

\* C21: a day has step_control = 2 exactly when the elapsed time from tin to
\* tout or from tout to tix is shorter than mintime; a day whose two spans
\* are both at least mintime, a span of more than 24 hours included, is not
\* rejected as too short, and every day with an rwu has both spans at least
\* mintime
C21_TooShortExactly ==
    \A i \in Processed :
        /\ RWU[i].step_control = Num(2) <=> ~LongEnough(RWU[i])
        /\ ~IsNaN(RWU[i].rwu) => LongEnough(RWU[i])

\* the second half alone: a day with an rwu has both spans at least mintime,
\* and a day with a span below mintime has step_control = 2
C21_ShortIsRejected ==
    \A i \in Processed :
        /\ ~LongEnough(RWU[i]) => RWU[i].step_control = Num(2)
        /\ ~IsNaN(RWU[i].rwu) => LongEnough(RWU[i])

\* the minimum-duration check as dayRWU makes it, on the time of day of the
\* two spans
FailsDuration(row) ==
    \/ NightSpan(row) % TicksPerDay < par.mintime
    \/ DaySpan(row) % TicksPerDay < par.mintime

\* the smoothed difference is above maxdiffs at a sample between tin and tix
FailsDrift(row) ==
    \E p \in DOMAIN index :
        /\ index[p] >= row.tin[1] /\ index[p] <= row.tix[1]
        /\ ~IsNaN(dif_ts[p]) /\ dif_ts[p][1] > Scaled(par.maxdiffs)

NoEstimates(row) ==
    IsNaN(row.rwu) /\ IsNaN(row.rwu_nonight) /\ IsNaN(row.lm_night) /\ IsNaN(row.lm_day)

\* evalx and the three times are in the row, and eval_nse is the score of
\* the comparison of the day with the idealised step (not-a-number only
\* where that comparison itself is)
TimesRecorded(row, dd) ==
    /\ row.evalx \in {Num(0), Num(1)}
    /\ row.eval_nse = StepNSE(dd, TimesOf(row))
    /\ ~IsNaN(row.tin) /\ ~IsNaN(row.tout) /\ ~IsNaN(row.tix)

\* C22: a row has step_control 2 only if the day failed the minimum-duration
\* check and 3 only if it passed that check and the smoothed difference is
\* above maxdiffs between tin and tix; such a row has rwu, rwu_nonight,
\* lm_night and lm_day not-a-number with evalx, eval_nse, tin, tout and tix
\* recorded; a day that passes both checks never has step_control 2 or 3
C22_RejectionCodes ==
    \A i \in Processed :
        /\ RWU[i].step_control = Num(2) => FailsDuration(RWU[i])
        /\ RWU[i].step_control = Num(3) =>
              ~FailsDuration(RWU[i]) /\ FailsDrift(RWU[i])
        /\ RWU[i].step_control \in {Num(2), Num(3)} =>
              NoEstimates(RWU[i]) /\ TimesRecorded(RWU[i], ddx[i])

C22_Witness ==
    \E i \in Processed :
        /\ RWU[i].step_control = Num(3)
        /\ ~FailsDuration(RWU[i]) /\ FailsDrift(RWU[i])
        /\ NoEstimates(RWU[i]) /\ TimesRecorded(RWU[i], ddx[i])

----------------------------------------------------------------------------
(* Further properties of dfRWUc *)

\* the result columns of sensor column k in the three returned tables
ResultsOf(k) == <<out.dummx.cols[k], out.dummy.cols[k], out.dummc.cols[k]>>

\* C23: dfRWUc evaluates every sensor column at the latitude, longitude and
\* elevation of the call: two columns holding the same data have the same
\* result columns in the three returned tables
C23_SameDataSameResult ==
    entry = "dfRWUc" /\ pc = "done" =>
        \A j, k \in DOMAIN table.data :
            table.data[j] = table.data[k] => ResultsOf(j) = ResultsOf(k)

====
